---- MODULE Spec2Model ----
(***************************************************************************)
(* freedns-go: the dual-upstream DNS forwarder of src/freedns/freedns.go.  *)
(* The model covers the request dispatcher (handle), the race resolver     *)
(* (LookupNet with its fast, clean and deadline goroutines), the pollution *)
(* classifier (maybePolluted) with its hint store (chinaDom), and the      *)
(* cache path (genCacheKey, subTTL, LookupCache, setCache).                *)
(***************************************************************************)
EXTENDS Integers, Sequences, FiniteSets, TLC

(***************************************************************************)
(* Bounds of the model.                                                    *)
(***************************************************************************)
\* number of incoming messages (each handled by its own handler goroutine)
MaxReq == 2
\* wall clock runs over 0..MaxTime whole seconds
MaxTime == 1
\* cfg.CacheSize: capacity of each of the two LRU stores
CacheSize == 1

\* every request starts at most one LookupNet (foreground or refresh)
MaxLookups == MaxReq

(***************************************************************************)
(* Program constants.                                                      *)
(***************************************************************************)
RcodeSuccess == 0
RcodeServerFailure == 2
RcodeBadName == 3
\* the value subTTL writes into a record whose TTL ran out
ClampTTL == 3
\* capacity of fastCh and cleanCh
ChanCap == 10

FastDNS == "114.114.114.114:53"
CleanDNS == "8.8.8.8:53"

\* dns.TypeToString, for the two query types of the model
TypeToString(t) == IF t = 1 THEN "A" ELSE IF t = 28 THEN "AAAA" ELSE ""

\* chinaip.IsChinaIP, an external oracle: membership in a fixed set
ChinaIPs == {"220.181.38.148"}
IsChinaIP(ip) == ip \in ChinaIPs

(***************************************************************************)
(* Messages.  A dns.Msg is a record; the zero value is ZeroMsg.            *)
(***************************************************************************)
ZeroMsg ==
  [Id |-> 0, Rcode |-> 0, RecursionDesired |-> FALSE, Question |-> <<>>,
   Answer |-> <<>>, Ns |-> <<>>, Extra |-> <<>>]

RR(t, ip, ttl) == [Rrtype |-> t, A |-> ip, Ttl |-> ttl]

\* the transaction id resolve picks for the upstream leg (dns.Id())
UpstreamId == 99

Question(name, qtype) == [Name |-> name, Qtype |-> qtype]

\* the incoming messages of the model; the client's transaction id is set
\* by the handler that receives it
ReqShapes ==
  { [Question |-> <<Question("a.", 1)>>, RecursionDesired |-> TRUE],
    [Question |-> <<Question("A.", 1)>>, RecursionDesired |-> TRUE],
    [Question |-> <<>>, RecursionDesired |-> TRUE] }

Nets == {"udp"}

\* the query names of the model
QNames == {"a.", "A."}

MkReq(h, shape) ==
  [ZeroMsg EXCEPT !.Id = h, !.Question = shape.Question,
                  !.RecursionDesired = shape.RecursionDesired]

(***************************************************************************)
(* dns.Msg.SetRcode(request, rcode): SetReply, then the response code.     *)
(***************************************************************************)
\* faulty variant: the transaction id is left as it was
SetRcode_KeepId(m, request, rcode) ==
  [m EXCEPT !.RecursionDesired = request.RecursionDesired,
            !.Rcode = rcode,
            !.Question = IF Len(request.Question) > 0
                         THEN <<request.Question[1]>> ELSE m.Question]

SetRcode(m, request, rcode) ==
  [m EXCEPT !.Id = request.Id,
            !.RecursionDesired = request.RecursionDesired,
            !.Rcode = rcode,
            !.Question = IF Len(request.Question) > 0
                         THEN <<request.Question[1]>> ELSE m.Question]

(***************************************************************************)
(* containA, containChinaIP                                                *)
(***************************************************************************)
AllRRs(res) == res.Answer \o res.Ns \o res.Extra

containA(res) ==
  \E i \in 1..Len(AllRRs(res)) : AllRRs(res)[i].Rrtype = "A"

\* faulty variant: only the answer section is searched
containChinaIP_AnswerOnly(res) ==
  \E i \in 1..Len(res.Answer) :
     res.Answer[i].Rrtype = "A" /\ IsChinaIP(res.Answer[i].A)

containChinaIP(res) ==
  \E i \in 1..Len(AllRRs(res)) :
     AllRRs(res)[i].Rrtype = "A" /\ IsChinaIP(AllRRs(res)[i].A)

(***************************************************************************)
(* genCacheKey.  The caller guards the index r.Question[0].                *)
(***************************************************************************)
\* faulty variant: the transaction id is part of the key
genCacheKey_WithId(r, net) ==
  ToString(r.Id) \o "_" \o r.Question[1].Name \o "_"
    \o TypeToString(r.Question[1].Qtype)
    \o (IF r.RecursionDesired THEN "_1" ELSE "_0") \o "_" \o net

genCacheKey(r, net) ==
  r.Question[1].Name \o "_" \o TypeToString(r.Question[1].Qtype)
    \o (IF r.RecursionDesired THEN "_1" ELSE "_0") \o "_" \o net

(***************************************************************************)
(* subTTL: the rewritten message and the needUpdate flag.  delta is never  *)
(* negative (a difference of monotonic clock readings), so a TTL that is   *)
(* not clamped lies in 1..rr.Ttl and the conversion to uint32 is exact.    *)
(***************************************************************************)
\* faulty variant: a TTL that has just run out is served as 0
SubOne_ClampBelowZero(rr, delta) ==
  IF rr.Ttl - delta < 0 THEN [rr EXCEPT !.Ttl = ClampTTL]
  ELSE [rr EXCEPT !.Ttl = rr.Ttl - delta]

\* faulty variant: the elapsed time is added
SubOne_Add(rr, delta) ==
  IF rr.Ttl - delta <= 0 THEN [rr EXCEPT !.Ttl = ClampTTL]
  ELSE [rr EXCEPT !.Ttl = rr.Ttl + delta]

SubOne(rr, delta) ==
  IF rr.Ttl - delta <= 0 THEN [rr EXCEPT !.Ttl = ClampTTL]
  ELSE [rr EXCEPT !.Ttl = rr.Ttl - delta]

SubSection(rrs, delta) == [i \in 1..Len(rrs) |-> SubOne(rrs[i], delta)]

\* faulty variant: a TTL that has just run out does not ask for a refresh
subTTL_UpdateBelowZero(res, delta) ==
  [msg |-> [res EXCEPT !.Answer = SubSection(res.Answer, delta),
                       !.Ns = SubSection(res.Ns, delta),
                       !.Extra = SubSection(res.Extra, delta)],
   needUpdate |-> \E i \in 1..Len(AllRRs(res)) : AllRRs(res)[i].Ttl - delta < 0]

subTTL(res, delta) ==
  [msg |-> [res EXCEPT !.Answer = SubSection(res.Answer, delta),
                       !.Ns = SubSection(res.Ns, delta),
                       !.Extra = SubSection(res.Extra, delta)],
   needUpdate |-> \E i \in 1..Len(AllRRs(res)) : AllRRs(res)[i].Ttl - delta <= 0]

(***************************************************************************)
(* The LRU store of golang-cache: a sequence, most recently used first.    *)
(***************************************************************************)
LruHas(c, k) == \E i \in 1..Len(c) : c[i].key = k
LruIdx(c, k) == CHOOSE i \in 1..Len(c) : c[i].key = k
LruVal(c, k) == c[LruIdx(c, k)].val
LruDrop(c, k) == SelectSeq(c, LAMBDA e : e.key # k)
\* Get moves the entry to the front
LruTouch(c, k) == IF LruHas(c, k) THEN <<c[LruIdx(c, k)]>> \o LruDrop(c, k) ELSE c
\* Set inserts at the front and evicts the least recently used beyond cap
LruSet(c, k, v, cap) ==
  LET n == <<[key |-> k, val |-> v]>> \o LruDrop(c, k)
  IN  IF Len(n) > cap THEN SubSeq(n, 1, cap) ELSE n


(***************************************************************************)
(* What an upstream exchange (resolve -> dns.Client.Exchange) can produce: *)
(* no message and an error, or a message of some shape with or without an  *)
(* error.  q says whether the reply echoes the question section.           *)
(***************************************************************************)
Outcome(isnil, err, rcode, q, an, ns, ex) ==
  [isnil |-> isnil, err |-> err, rcode |-> rcode, q |-> q,
   an |-> an, ns |-> ns, ex |-> ex]

ChinaA == RR("A", "220.181.38.148", 2)
ForeignA == RR("A", "8.8.8.8", 2)
AAAA == RR("AAAA", "2400::1", 2)

FastOutcomes ==
  { Outcome(TRUE, TRUE, 0, FALSE, <<>>, <<>>, <<>>),
    Outcome(FALSE, FALSE, RcodeSuccess, TRUE, <<ChinaA>>, <<>>, <<>>),
    Outcome(FALSE, FALSE, RcodeSuccess, TRUE, <<ForeignA>>, <<>>, <<>>),
    Outcome(FALSE, FALSE, RcodeSuccess, TRUE, <<AAAA>>, <<>>, <<>>),
    Outcome(FALSE, FALSE, RcodeSuccess, TRUE, <<>>, <<>>, <<>>),
    Outcome(FALSE, FALSE, RcodeSuccess, TRUE, <<ForeignA>>, <<>>, <<ChinaA>>),
    Outcome(FALSE, FALSE, RcodeServerFailure, TRUE, <<ChinaA>>, <<>>, <<>>),
    Outcome(FALSE, TRUE, RcodeSuccess, TRUE, <<ChinaA>>, <<>>, <<>>),
    Outcome(FALSE, FALSE, RcodeSuccess, FALSE, <<ChinaA>>, <<>>, <<>>) }

CleanOutcomes ==
  { Outcome(TRUE, TRUE, 0, FALSE, <<>>, <<>>, <<>>),
    Outcome(FALSE, FALSE, RcodeSuccess, TRUE, <<RR("A", "93.184.216.34", 1)>>, <<>>, <<>>),
    Outcome(FALSE, FALSE, RcodeServerFailure, FALSE, <<>>, <<>>, <<>>),
    Outcome(FALSE, FALSE, RcodeSuccess, FALSE, <<RR("A", "93.184.216.34", 1)>>, <<>>, <<>>) }

\* resolve: the reply to a copy of req that carries a fresh transaction id
MkReply(req, o) ==
  [Id |-> UpstreamId, Rcode |-> o.rcode,
   RecursionDesired |-> req.RecursionDesired,
   Question |-> IF o.q THEN req.Question ELSE <<>>,
   Answer |-> o.an, Ns |-> o.ns, Extra |-> o.ex]

(***************************************************************************)
(* maybePolluted, as a function of the reply and the hint store: the       *)
(* verdict, the hint store afterwards, and whether res.Question[0] was an  *)
(* index out of range.                                                     *)
(***************************************************************************)
Verdict(polluted, dom, panic) ==
  [polluted |-> polluted, dom |-> dom, panic |-> panic]

\* faulty variant: the verdict is the hint itself
HintVerdict_AsHint(china) == china

\* line 261: return !china.(bool)
HintVerdict(china) == ~china

\* faulty variant: a reply without A record for a name without hint is
\* remembered as a hint
maybePolluted_Rule4Learns(res, dom) ==
  IF Len(res.Answer) + Len(res.Ns) + Len(res.Extra) = 0
  THEN Verdict(TRUE, dom, FALSE)
  ELSE IF containA(res)
  THEN IF Len(res.Question) = 0
       THEN Verdict(FALSE, dom, TRUE)
       ELSE Verdict(~containChinaIP(res),
                    LruSet(dom, res.Question[1].Name, containChinaIP(res), CacheSize),
                    FALSE)
  ELSE IF Len(res.Question) = 0
  THEN Verdict(FALSE, dom, TRUE)
  ELSE IF LruHas(dom, res.Question[1].Name)
  THEN Verdict(HintVerdict(LruVal(dom, res.Question[1].Name)),
               LruTouch(dom, res.Question[1].Name), FALSE)
  ELSE Verdict(FALSE, LruSet(dom, res.Question[1].Name, TRUE, CacheSize), FALSE)

maybePolluted(res, dom) ==
  IF Len(res.Answer) + Len(res.Ns) + Len(res.Extra) = 0
  THEN Verdict(TRUE, dom, FALSE)
  ELSE IF containA(res)
  THEN IF Len(res.Question) = 0
       THEN Verdict(FALSE, dom, TRUE)
       ELSE Verdict(~containChinaIP(res),
                    LruSet(dom, res.Question[1].Name, containChinaIP(res), CacheSize),
                    FALSE)
  ELSE IF Len(res.Question) = 0
  THEN Verdict(FALSE, dom, TRUE)
  ELSE IF LruHas(dom, res.Question[1].Name)
  THEN Verdict(HintVerdict(LruVal(dom, res.Question[1].Name)),
               LruTouch(dom, res.Question[1].Name), FALSE)
  ELSE Verdict(FALSE, dom, FALSE)

\* faulty variant: the transport error is not looked at
FastPrecheck_IgnoreErr(res, err) == res.Rcode = RcodeSuccess

\* LookupNet.Q, line 197: a fast reply goes to the classifier only with
\* response code NOERROR and no transport error
FastPrecheck(res, err) == res.Rcode = RcodeSuccess /\ ~err

(***************************************************************************)
(* State.                                                                  *)
(***************************************************************************)
VARIABLES
  now,       \* wall clock, whole seconds
  crashed,   \* an unrecovered panic has ended the process
  hpc,       \* handler h: "idle", "net", "done", "panic"
  hreq,      \* the incoming message of handler h
  hnet,      \* its transport
  hup,       \* handle's local variable upstream
  wrote,     \* what handler h has written to its reply sink
  hit,       \* the cache hit of handler h, if it had one
  ln,        \* the LookupNet call started while handling message h
  msgs,      \* the messages that upstream replies and LookupNet allocate
  cache,     \* s.cache
  chinaDom,  \* s.chinaDom
  cl,        \* the classifier on its own (see Classify)
  tc         \* the cache path on its own (see TcInsert, TcLookup)

sysvars == <<now, crashed, hpc, hreq, hnet, hup, wrote, hit, ln, msgs, cache,
             chinaDom>>

vars == <<sysvars, cl, tc>>

Handlers == 1..MaxReq
Lookups == 1..MaxLookups

\* a *dns.Msg: the LookupNet call that allocated it and which of its
\* three messages it is; Nil is the nil pointer
Ptr(l, w) == [l |-> l, w |-> w]
Nil == Ptr(0, "nil")
Ptrs == {Ptr(l, w) : l \in Lookups, w \in {"fast", "clean", "servfail"}}

Chan == [log |-> <<>>, rd |-> 0]
ChanLen(ch) == Len(ch.log) - ch.rd
\* faulty variant: the value is sent twice
ChanSend_Dup(ch, v) == [ch EXCEPT !.log = Append(Append(@, v), v)]

ChanSend(ch, v) == [ch EXCEPT !.log = Append(@, v)]
ChanHead(ch) == ch.log[ch.rd + 1]
ChanRecv(ch) == [ch EXCEPT !.rd = @ + 1]

\* What is remembered of an exchange: whether it produced a reply with
\* response code NOERROR and no transport error (pass), and whether the
\* classifier ran on the reply and called it trustworthy (trusted), and
\* whether such a reply had an A record in some section (a).
NoExchange == [done |-> FALSE, pass |-> FALSE, trusted |-> FALSE, a |-> FALSE]

Observed(o, trusted) ==
  [done |-> TRUE,
   pass |-> ~o.isnil /\ o.rcode = RcodeSuccess /\ ~o.err,
   trusted |-> trusted,
   a |-> /\ ~o.isnil /\ o.rcode = RcodeSuccess /\ ~o.err
         /\ \E sec \in {o.an, o.ns, o.ex} :
              \E i \in 1..Len(sec) : sec[i].Rrtype = "A"]

FreeLN ==
  [pc |-> "free", req |-> ZeroMsg, net |-> "", bg |-> FALSE,
   fastCh |-> Chan, cleanCh |-> Chan,
   qf |-> "idle", qc |-> "idle", dl |-> "idle",
   res |-> Nil, label |-> "", fx |-> NoExchange, cx |-> NoExchange]

\* LookupNet lines 172-213: the two channels and the three goroutines
NewLN(req, net, bg) ==
  [FreeLN EXCEPT !.pc = "recvFast", !.req = req, !.net = net, !.bg = bg,
                 !.qf = "run", !.qc = "run", !.dl = "run"]

NoHit == [ok |-> FALSE, key |-> "", putin |-> 0, reply |-> Nil, at |-> 0,
          served |-> ZeroMsg, needUpdate |-> FALSE, stored |-> ZeroMsg]

(***************************************************************************)
(* The heap holds the messages that can still be read: those in the cache, *)
(* the one a LookupNet call is about to receive from a channel, and the    *)
(* one it returned to a handler that has not written yet.  Everything else *)
(* is garbage and is collected.                                            *)
(***************************************************************************)
Live(p, lns, c, pcs) ==
  \/ \E i \in 1..Len(c) : c[i].val.reply = p
  \/ /\ lns[p.l].pc = "recvFast"
     /\ \/ ChanLen(lns[p.l].fastCh) > 0 /\ ChanHead(lns[p.l].fastCh) = p
        \/ ChanLen(lns[p.l].cleanCh) > 0 /\ ChanHead(lns[p.l].cleanCh) = p
  \/ /\ lns[p.l].pc = "recvClean"
     /\ ChanLen(lns[p.l].cleanCh) > 0 /\ ChanHead(lns[p.l].cleanCh) = p
  \/ /\ lns[p.l].pc = "returned" /\ lns[p.l].res = p
     /\ ~lns[p.l].bg /\ pcs[p.l] = "net"

Collect(heap, lns, c, pcs) ==
  [p \in Ptrs |-> IF Live(p, lns, c, pcs) THEN heap[p] ELSE ZeroMsg]

\* the records of a message, whatever their section
Records(res) ==
  {res.Answer[i] : i \in 1..Len(res.Answer)}
    \cup {res.Ns[i] : i \in 1..Len(res.Ns)}
    \cup {res.Extra[i] : i \in 1..Len(res.Extra)}

ClassifyNames == {"a.", "A.", "b."}

NoCall == [called |-> FALSE, res |-> ZeroMsg, before |-> <<>>,
           polluted |-> FALSE]

\* number of replies the cache path on its own is given to store
MaxInserts == 2
\* its clock runs over 0..MaxClock, its stored TTLs over 0..MaxTTL
MaxClock == 4
MaxTTL == 3

NoInsert == [done |-> FALSE, req |-> ZeroMsg, net |-> "", p |-> 0]

Init ==
  /\ now = 0
  /\ crashed = FALSE
  /\ hpc = [h \in Handlers |-> "idle"]
  /\ hreq = [h \in Handlers |-> ZeroMsg]
  /\ hnet = [h \in Handlers |-> ""]
  /\ hup = [h \in Handlers |-> ""]
  /\ wrote = [h \in Handlers |-> <<>>]
  /\ hit = [h \in Handlers |-> NoHit]
  /\ ln = [l \in Lookups |-> FreeLN]
  /\ msgs = [p \in Ptrs |-> ZeroMsg]
  /\ cache = <<>>
  /\ chinaDom = <<>>
  /\ cl = [dom |-> <<>>, dead |-> FALSE, last |-> NoCall,
           lastA |-> [n \in ClassifyNames |-> "none"]]
  /\ tc = [now |-> 0, cache |-> <<>>, heap |-> [k \in 1..MaxInserts |-> ZeroMsg],
           n |-> 0, ins |-> NoInsert, h1 |-> NoHit, h2 |-> NoHit,
           req |-> ZeroMsg, net |-> ""]


(***************************************************************************)
(* setCache: the key comes from the reply itself; res.Question[0] is an    *)
(* index out of range on a reply without a question.                       *)
(***************************************************************************)
setCache(c, res, p, net, t) ==
  IF Len(res.Question) = 0
  THEN [panic |-> TRUE, cache |-> c]
  ELSE [panic |-> FALSE,
        cache |-> LruSet(c, genCacheKey(res, net),
                         [putin |-> t, reply |-> p], CacheSize)]

(***************************************************************************)
(* The fast goroutine Q(fastCh, false): the exchange, the precheck, the    *)
(* classifier and the send.                                                *)
(***************************************************************************)
QFast(l) ==
  /\ ~crashed
  /\ ln[l].qf = "run"
  /\ ChanLen(ln[l].fastCh) < ChanCap
  /\ \E o \in FastOutcomes :
       LET res == MkReply(ln[l].req, o)
           pre == ~o.isnil /\ FastPrecheck(res, o.err)
           v == maybePolluted(res, chinaDom)
           accept == pre /\ ~v.polluted
           fx == Observed(o, accept)
       IN  IF pre /\ v.panic
           THEN /\ crashed' = TRUE
                /\ ln' = [ln EXCEPT ![l].qf = "panic"]
                /\ UNCHANGED <<msgs, chinaDom>>
           ELSE /\ ln' = [ln EXCEPT ![l].qf = "done", ![l].fx = fx,
                            ![l].fastCh = ChanSend(@,
                               IF accept THEN Ptr(l, "fast") ELSE Nil)]
                /\ msgs' = Collect(IF accept
                                   THEN [msgs EXCEPT ![Ptr(l, "fast")] = res]
                                   ELSE msgs, ln', cache, hpc)
                /\ chinaDom' = IF pre THEN v.dom ELSE chinaDom
                /\ UNCHANGED crashed
  /\ UNCHANGED <<now, hpc, hreq, hnet, hup, wrote, hit, cache, cl, tc>>

(***************************************************************************)
(* The clean goroutine Q(cleanCh, true): whatever the exchange yields.     *)
(***************************************************************************)
QClean(l) ==
  /\ ~crashed
  /\ ln[l].qc = "run"
  /\ ChanLen(ln[l].cleanCh) < ChanCap
  /\ \E o \in CleanOutcomes :
       LET res == MkReply(ln[l].req, o)
           cx == Observed(o, FALSE)
       IN  /\ ln' = [ln EXCEPT ![l].qc = "done", ![l].cx = cx,
                       ![l].cleanCh = ChanSend(@,
                          IF o.isnil THEN Nil ELSE Ptr(l, "clean"))]
           /\ msgs' = Collect(IF o.isnil THEN msgs
                              ELSE [msgs EXCEPT ![Ptr(l, "clean")] = res],
                              ln', cache, hpc)
  /\ UNCHANGED <<now, crashed, hpc, hreq, hnet, hup, wrote, hit, cache,
                 chinaDom, cl, tc>>

(***************************************************************************)
(* The deadline goroutine: after the sleep, nil on both channels.          *)
(***************************************************************************)
Deadline(l) ==
  /\ ~crashed
  /\ ln[l].dl = "run"
  /\ ChanLen(ln[l].fastCh) < ChanCap
  /\ ChanLen(ln[l].cleanCh) < ChanCap
  /\ ln' = [ln EXCEPT ![l].dl = "done",
                      ![l].fastCh = ChanSend(@, Nil),
                      ![l].cleanCh = ChanSend(@, Nil)]
  /\ UNCHANGED <<now, crashed, hpc, hreq, hnet, hup, wrote, hit, msgs, cache,
                 chinaDom, cl, tc>>

\* faulty variant: the fast channel's value is always taken for nil
Yielded_Never(p) == FALSE

\* line 217: res != nil
Yielded(p) == p # Nil

\* faulty variant: the made-up reply says NOERROR
servFail_Success(req) == SetRcode(ZeroMsg, req, RcodeSuccess)

\* faulty variant: whatever the clean channel yields is cached
Cacheable_Always(m) == TRUE

\* line 228: res.Rcode == dns.RcodeSuccess
Cacheable(m) == m.Rcode = RcodeSuccess

\* lines 225-226: the reply LookupNet makes up when both channels yield nil
servFail(req) == SetRcode(ZeroMsg, req, RcodeServerFailure)

\* time.Now(): the clock never runs backwards, and any number of seconds
\* may have passed since it was last read
Clock == now..MaxTime

\* a panic in LookupNet unwinds the handler that called it
Unwind(l) == IF ln[l].bg THEN hpc ELSE [hpc EXCEPT ![l] = "panic"]

(***************************************************************************)
(* LookupNet lines 215-220: res := <-fastCh.                               *)
(***************************************************************************)
RecvFast(l) ==
  /\ ~crashed
  /\ ln[l].pc = "recvFast"
  /\ ChanLen(ln[l].fastCh) > 0
  /\ LET p == ChanHead(ln[l].fastCh)
     IN  IF ~Yielded(p)
         THEN /\ ln' = [ln EXCEPT ![l].pc = "recvClean",
                                  ![l].fastCh = ChanRecv(@)]
              /\ UNCHANGED <<now, crashed, hpc, cache, msgs>>
         ELSE IF setCache(cache, msgs[p], p, ln[l].net, now).panic
         THEN /\ ln' = [ln EXCEPT ![l].pc = "panic", ![l].fastCh = ChanRecv(@)]
              /\ crashed' = TRUE
              /\ hpc' = Unwind(l)
              /\ UNCHANGED <<now, cache, msgs>>
         ELSE /\ ln' = [ln EXCEPT ![l].pc = "returned", ![l].res = p,
                                  ![l].label = FastDNS,
                                  ![l].fastCh = ChanRecv(@)]
              /\ now' \in Clock
              /\ cache' = setCache(cache, msgs[p], p, ln[l].net, now').cache
              /\ msgs' = Collect(msgs, ln', cache', hpc)
              /\ UNCHANGED <<crashed, hpc>>
  /\ UNCHANGED <<hreq, hnet, hup, wrote, hit, chinaDom, cl, tc>>

(***************************************************************************)
(* LookupNet lines 222-231: res = <-cleanCh.                               *)
(***************************************************************************)
RecvClean(l) ==
  /\ ~crashed
  /\ ln[l].pc = "recvClean"
  /\ ChanLen(ln[l].cleanCh) > 0
  /\ LET p == ChanHead(ln[l].cleanCh)
         q == IF p = Nil THEN Ptr(l, "servfail") ELSE p
         m == IF p = Nil THEN servFail(ln[l].req) ELSE msgs[p]
     IN  IF ~Cacheable(m)
         THEN /\ ln' = [ln EXCEPT ![l].pc = "returned", ![l].res = q,
                                  ![l].label = CleanDNS,
                                  ![l].cleanCh = ChanRecv(@)]
              /\ msgs' = Collect([msgs EXCEPT ![q] = m], ln', cache, hpc)
              /\ UNCHANGED <<now, crashed, hpc, cache>>
         ELSE IF setCache(cache, m, q, ln[l].net, now).panic
         THEN /\ ln' = [ln EXCEPT ![l].pc = "panic",
                                  ![l].cleanCh = ChanRecv(@)]
              /\ crashed' = TRUE
              /\ hpc' = Unwind(l)
              /\ UNCHANGED <<now, cache, msgs>>
         ELSE /\ ln' = [ln EXCEPT ![l].pc = "returned", ![l].res = q,
                                  ![l].label = CleanDNS,
                                  ![l].cleanCh = ChanRecv(@)]
              /\ now' \in Clock
              /\ cache' = setCache(cache, m, q, ln[l].net, now').cache
              /\ msgs' = Collect([msgs EXCEPT ![q] = m], ln', cache', hpc)
              /\ UNCHANGED <<crashed, hpc>>
  /\ UNCHANGED <<hreq, hnet, hup, wrote, hit, chinaDom, cl, tc>>

(***************************************************************************)
(* LookupCache: the probe, the copy with rewritten TTLs, and whether a     *)
(* refresh is started.                                                     *)
(***************************************************************************)
\* faulty variant: no copy, the TTLs are rewritten in the stored message
Copy_Alias(m, r) == r

\* line 352: r := c.reply.Copy(); m is the stored message and r what subTTL
\* made of the copy; the stored message is as it was
Copy(m, r) == m

LookupCache(c, heap, req, net, t) ==
  LET key == genCacheKey(req, net)
  IN  IF LruHas(c, key)
      THEN LET e == LruVal(c, key)
               r == subTTL(heap[e.reply], t - e.putin)
           IN  [ok |-> TRUE, key |-> key, putin |-> e.putin, reply |-> e.reply,
                at |-> t, served |-> r.msg, needUpdate |-> r.needUpdate,
                stored |-> Copy(heap[e.reply], r.msg)]
      ELSE NoHit

(***************************************************************************)
(* handle, up to the call of LookupNet: a message without a question is    *)
(* answered at once; a cache hit is stamped and written (and may start a   *)
(* detached LookupNet); a miss calls LookupNet.                            *)
(***************************************************************************)
\* faulty variant: the reply to a message without a question says SERVFAIL
badName_ServFail(req) == SetRcode(ZeroMsg, req, RcodeServerFailure)

\* line 122: res.SetRcode(req, dns.RcodeBadName) on the fresh message
badName(req) == SetRcode(ZeroMsg, req, RcodeBadName)

HandleRequest(h) ==
  /\ ~crashed
  /\ hpc[h] = "idle"
  \* the messages are numbered in their order of arrival
  /\ \A g \in Handlers : g < h => hpc[g] # "idle"
  /\ \E shape \in ReqShapes, net \in Nets, t \in Clock :
       LET req == MkReq(h, shape)
           lc == IF Len(req.Question) < 1 THEN NoHit
                 ELSE LookupCache(cache, msgs, req, net, t)
       IN  \* the clock is read on a hit only
           /\ t # now => lc.ok
           /\ now' = t
           /\ hreq' = [hreq EXCEPT ![h] = req]
           /\ hnet' = [hnet EXCEPT ![h] = net]
           /\ IF Len(req.Question) < 1
              THEN /\ wrote' = [wrote EXCEPT ![h] = Append(@, badName(req))]
                   /\ hpc' = [hpc EXCEPT ![h] = "done"]
                   /\ UNCHANGED <<hup, hit, ln, cache, msgs>>
              ELSE IF lc.ok
              THEN /\ hit' = [hit EXCEPT ![h] = lc]
                   /\ cache' = LruTouch(cache, lc.key)
                   /\ ln' = IF lc.needUpdate
                            THEN [ln EXCEPT ![h] = NewLN(req, net, TRUE)]
                            ELSE ln
                   /\ hup' = [hup EXCEPT ![h] = "cache"]
                   /\ wrote' = [wrote EXCEPT ![h] =
                        Append(@, SetRcode(lc.served, req, lc.served.Rcode))]
                   /\ hpc' = [hpc EXCEPT ![h] = "done"]
                   /\ msgs' = [msgs EXCEPT ![lc.reply] = lc.stored]
              ELSE /\ ln' = [ln EXCEPT ![h] = NewLN(req, net, FALSE)]
                   /\ hup' = [hup EXCEPT ![h] = "net"]
                   /\ hpc' = [hpc EXCEPT ![h] = "net"]
                   /\ UNCHANGED <<wrote, hit, cache, msgs>>
  /\ UNCHANGED <<crashed, chinaDom, cl, tc>>

(***************************************************************************)
(* handle, after LookupNet has returned: stamp the reply in place with the *)
(* request's id and question, and write it.                                *)
(***************************************************************************)
HandleReply(h) ==
  /\ ~crashed
  /\ hpc[h] = "net"
  /\ ln[h].pc = "returned"
  /\ LET p == ln[h].res
         m == IF p = Nil
              THEN servFail(hreq[h])
              ELSE SetRcode(msgs[p], hreq[h], msgs[p].Rcode)
     IN  /\ wrote' = [wrote EXCEPT ![h] = Append(@, m)]
         /\ hup' = [hup EXCEPT ![h] = ln[h].label]
         /\ hpc' = [hpc EXCEPT ![h] = "done"]
         /\ msgs' = Collect(IF p = Nil THEN msgs ELSE [msgs EXCEPT ![p] = m],
                            ln, cache, hpc')
  /\ UNCHANGED <<now, crashed, hreq, hnet, hit, ln, cache, chinaDom, cl, tc>>

(***************************************************************************)
(* The classifier on its own: maybePolluted applied, one call after the    *)
(* other, to replies drawn from ClassifyReplies.  cl holds the hint store, *)
(* the last call (the reply, the hint store before it, the verdict) and,   *)
(* per name, what the latest A-bearing reply classified for it said.       *)
(***************************************************************************)
ClassifySections ==
  { [an |-> <<>>, ns |-> <<>>, ex |-> <<>>],
    [an |-> <<ChinaA>>, ns |-> <<>>, ex |-> <<>>],
    [an |-> <<ForeignA>>, ns |-> <<>>, ex |-> <<>>],
    [an |-> <<AAAA>>, ns |-> <<>>, ex |-> <<>>],
    [an |-> <<ForeignA>>, ns |-> <<AAAA>>, ex |-> <<ChinaA>>],
    [an |-> <<AAAA>>, ns |-> <<ChinaA>>, ex |-> <<>>],
    [an |-> <<>>, ns |-> <<AAAA>>, ex |-> <<ForeignA>>] }

ClassifyReplies ==
  { [ZeroMsg EXCEPT !.Id = UpstreamId, !.RecursionDesired = TRUE,
                    !.Question = q, !.Answer = s.an, !.Ns = s.ns, !.Extra = s.ex] :
      q \in {<<Question(n, 1)>> : n \in ClassifyNames} \cup {<<>>},
      s \in ClassifySections }

Classify ==
  /\ ~cl.dead
  /\ \E res \in ClassifyReplies :
       LET v == maybePolluted(res, cl.dom)
       IN  IF v.panic
           THEN cl' = [cl EXCEPT !.dead = TRUE, !.last = NoCall]
           ELSE cl' = [cl EXCEPT
                  !.dom = v.dom,
                  !.last = [called |-> TRUE, res |-> res, before |-> cl.dom,
                            polluted |-> v.polluted],
                  !.lastA = IF \E rr \in Records(res) : rr.Rrtype = "A"
                            THEN [@ EXCEPT ![res.Question[1].Name] =
                                    IF \E rr \in Records(res) :
                                         rr.Rrtype = "A" /\ rr.A \in ChinaIPs
                                    THEN "china" ELSE "foreign"]
                            ELSE @]
  /\ UNCHANGED <<sysvars, tc>>

ClassifyNext == Classify

SpecClassify == Init /\ [][ClassifyNext]_vars

(***************************************************************************)
(* The cache path on its own: setCache and LookupCache applied, one call   *)
(* after the other, to replies and requests drawn from small sets, with    *)
(* the clock read at each call.  tc holds the clock, the store, the stored *)
(* messages, the last insertion, and the last lookup since then (the last  *)
(* two where two says so).                                                 *)
(***************************************************************************)
TcShape(an, ns, ex) == [an |-> an, ns |-> ns, ex |-> ex]

\* what LookupNet returns for r and handle has stamped: a NOERROR reply
\* that echoes the question and carries the records of shape sh
TcReply(r, sh) ==
  SetRcode(MkReply(r, Outcome(FALSE, FALSE, RcodeSuccess, TRUE,
                              sh.an, sh.ns, sh.ex)), r, RcodeSuccess)

TcInsert(reqs, nets, shapes, tmax) ==
  /\ tc.n < MaxInserts
  /\ \E r \in reqs, net \in nets, sh \in shapes, t \in tc.now..tmax :
       LET p == tc.n + 1
           res == TcReply(r, sh)
           c == setCache(tc.cache, res, p, net, t).cache
       IN  tc' = [tc EXCEPT
             !.now = t, !.cache = c, !.n = p,
             !.heap = [k \in 1..MaxInserts |->
                         IF \E i \in 1..Len(c) : c[i].val.reply = k
                         THEN (IF k = p THEN res ELSE tc.heap[k])
                         ELSE ZeroMsg],
             !.ins = [done |-> TRUE, req |-> r, net |-> net, p |-> p],
             !.h1 = NoHit, !.h2 = NoHit, !.req = ZeroMsg, !.net = ""]
  /\ UNCHANGED <<sysvars, cl>>

TcLookup(reqs, nets, tmax, two) ==
  /\ \E r \in reqs, net \in nets, t \in tc.now..tmax :
       LET lc == LookupCache(tc.cache, tc.heap, r, net, t)
       IN  \* the clock is read on a hit only
           /\ t # tc.now => lc.ok
           /\ tc' = [tc EXCEPT
                 !.now = t, !.cache = LruTouch(@, genCacheKey(r, net)),
                 !.heap = IF lc.ok THEN [@ EXCEPT ![lc.reply] = lc.stored] ELSE @,
                 !.h1 = IF two THEN tc.h2 ELSE NoHit,
                 !.h2 = lc, !.req = r, !.net = net]
  /\ UNCHANGED <<sysvars, cl>>

\* one request and one transport, every stored TTL and every elapsed time
TtlReq == MkReq(1, [Question |-> <<Question("a.", 1)>>, RecursionDesired |-> TRUE])

TtlShapes ==
  { TcShape(<<RR("A", "8.8.8.8", x)>>, <<RR("AAAA", "2400::1", y)>>,
            <<RR("A", "8.8.4.4", MaxTTL)>>) : x \in 0..MaxTTL, y \in 0..MaxTTL }

TtlInsert == TcInsert({TtlReq}, {"udp"}, TtlShapes, MaxClock)
TtlLookup == TcLookup({TtlReq}, {"udp"}, MaxClock, TRUE)

TtlNext == TtlInsert \/ TtlLookup

SpecTTL == Init /\ [][TtlNext]_vars

\* every request and both transports, one stored reply shape, no time passing
KeyReqs ==
  { [ZeroMsg EXCEPT !.Id = id, !.RecursionDesired = rd,
                    !.Question = <<Question(n, t)>>] :
      id \in {1, 2}, rd \in BOOLEAN, n \in QNames, t \in {1, 28} }

KeyNets == {"udp", "tcp"}

\* the replies are stored for requests of one id, and looked up under both
KeyStored == {r \in KeyReqs : r.Id = 1}

KeyInsert == TcInsert(KeyStored, KeyNets, {TcShape(<<ForeignA>>, <<>>, <<>>)}, 0)
KeyLookup == TcLookup(KeyReqs, KeyNets, 0, FALSE)

KeyNext == KeyInsert \/ KeyLookup

SpecKey == Init /\ [][KeyNext]_vars

Next ==
  \/ \E h \in Handlers : HandleRequest(h)
  \/ \E h \in Handlers : HandleReply(h)
  \/ \E l \in Lookups : QFast(l)
  \/ \E l \in Lookups : QClean(l)
  \/ \E l \in Lookups : Deadline(l)
  \/ \E l \in Lookups : RecvFast(l)
  \/ \E l \in Lookups : RecvClean(l)

Spec == Init /\ [][Next]_vars

(***************************************************************************)
(* Properties.                                                             *)
(***************************************************************************)
FastPtr(l) == Ptr(l, "fast")
InCache(p) == \E i \in 1..Len(cache) : cache[i].val.reply = p
OnChan(ch, p) == \E i \in 1..Len(ch.log) : ch.log[i] = p
FastAccepted(l) == ln[l].fx.done /\ ln[l].fx.pass /\ ln[l].fx.trusted

\* C1: a fast reply is put on the fast channel, returned under the fast
\* label, cached or served to a client only if its exchange produced a
\* NOERROR reply without transport error and the classifier called it
\* trustworthy; a fast reply failing any of these leaves only nil on the
\* fast channel.
C1_OnlyTrustworthyFast ==
  /\ \A l \in Lookups :
       /\ (\/ OnChan(ln[l].fastCh, FastPtr(l))
           \/ ln[l].res = FastPtr(l)
           \/ ln[l].label = FastDNS
           \/ InCache(FastPtr(l))) => FastAccepted(l)
       /\ (ln[l].fx.done /\ ~FastAccepted(l)) =>
            \A i \in 1..Len(ln[l].fastCh.log) : ln[l].fastCh.log[i] = Nil
  /\ \A h \in Handlers :
       /\ hup[h] = FastDNS => FastAccepted(h)
       /\ (hit[h].ok /\ hit[h].reply.w = "fast") => FastAccepted(hit[h].reply.l)

\* a NOERROR fast reply was called polluted, and LookupNet returned the
\* clean upstream's reply instead
C1_Witness ==
  \E l \in Lookups :
     /\ ln[l].fx.done /\ ln[l].fx.pass /\ ~ln[l].fx.trusted
     /\ ln[l].pc = "returned" /\ ln[l].res = Ptr(l, "clean")
     /\ ~InCache(FastPtr(l))

\* C2 as stated: whenever both upstreams delivered NOERROR replies and the
\* fast one was called trustworthy, what LookupNet returns is the fast reply
\* under the fast label, whatever the order of arrival on the channels.
C2_FastPreferredAnyOrder ==
  \A l \in Lookups :
     (ln[l].pc = "returned" /\ FastAccepted(l) /\ ln[l].cx.done /\ ln[l].cx.pass)
       => (ln[l].res = FastPtr(l) /\ ln[l].label = FastDNS)

\* C2, amended: a trustworthy fast reply that reaches the fast channel before
\* the deadline's nil is the one LookupNet returns, under the fast label,
\* whatever the clean goroutine did and whenever; the clean channel is read
\* only after the fast channel has yielded nil.
C2_FastPreferredBeforeDeadline ==
  \A l \in Lookups :
     /\ (Len(ln[l].fastCh.log) > 0 /\ ln[l].fastCh.log[1] = FastPtr(l)) =>
          /\ ln[l].pc \in {"recvFast", "returned"}
          /\ ln[l].cleanCh.rd = 0
          /\ ln[l].pc = "returned" =>
               (ln[l].res = FastPtr(l) /\ ln[l].label = FastDNS)
     /\ ln[l].cleanCh.rd > 0 =>
          (ln[l].fastCh.rd = 1 /\ ln[l].fastCh.log[1] = Nil)

\* the clean reply and the fast reply are both on their channels, followed
\* by the deadline's nil, and LookupNet has returned the fast one
C2_Witness ==
  \E l \in Lookups :
     /\ ln[l].fastCh.log = <<FastPtr(l), Nil>>
     /\ ln[l].cleanCh.log = <<Ptr(l, "clean"), Nil>>
     /\ ln[l].cx.pass
     /\ ln[l].pc = "returned" /\ ln[l].res = FastPtr(l)

\* C5: a handler that has finished, normally or not, has written exactly
\* one reply.
C5_ExactlyOneReply ==
  \A h \in Handlers : hpc[h] \in {"done", "panic"} => Len(wrote[h]) = 1

BothNil(l) ==
  /\ ln[l].fastCh.rd = 1 /\ ln[l].fastCh.log[1] = Nil
  /\ ln[l].cleanCh.rd = 1 /\ ln[l].cleanCh.log[1] = Nil

C7_NoRequestWaitsForever ==
  \A h \in Handlers :
     /\ hpc[h] # "panic"
     /\ hpc[h] = "net" =>
          ENABLED (Deadline(h) \/ RecvFast(h) \/ RecvClean(h) \/ HandleReply(h))

(***************************************************************************)
(* Properties of the classifier.                                           *)
(***************************************************************************)
HasA(res) == \E rr \in Records(res) : rr.Rrtype = "A"
AnyAInChina(res) == \E rr \in Records(res) : rr.Rrtype = "A" /\ rr.A \in ChinaIPs
LastName == cl.last.res.Question[1].Name

\* the last call was decided by rule 3: records, none of them an A record,
\* and a hint for the name
Rule3Case ==
  /\ cl.last.called
  /\ Records(cl.last.res) # {} /\ ~HasA(cl.last.res)
  /\ LruHas(cl.last.before, LastName)

\* C3 as stated: under rule 3 the verdict is polluted iff the hint says the
\* name is known-China.
C3_PollutedIffHintChina ==
  Rule3Case => (cl.last.polluted <=> LruVal(cl.last.before, LastName))

\* C3, amended: under rule 3 the verdict is polluted iff the hint says the
\* name is not known-China; with the hint true a reply without A records is
\* trustworthy.
C3_PollutedIffHintNotChina ==
  Rule3Case => (cl.last.polluted <=> ~LruVal(cl.last.before, LastName))

\* a reply with records but no A record for a name whose hint is true was
\* called trustworthy
C3_Witness ==
  /\ Rule3Case
  /\ LruVal(cl.last.before, LastName)
  /\ ~cl.last.polluted

\* C4: after a call on a reply with an A record in any section, the hint
\* for its name is (some A record is in the ChinaIP set) and the verdict is
\* polluted iff none is; and every hint in the store is the value computed
\* from the latest A-bearing reply classified for its name.
C4_Rule2SetsHint ==
  /\ (cl.last.called /\ HasA(cl.last.res)) =>
       /\ LruHas(cl.dom, LastName)
       /\ LruVal(cl.dom, LastName) = AnyAInChina(cl.last.res)
       /\ cl.last.polluted <=> ~AnyAInChina(cl.last.res)
  /\ \A n \in ClassifyNames :
       LruHas(cl.dom, n) =>
         /\ cl.lastA[n] # "none"
         /\ LruVal(cl.dom, n) = (cl.lastA[n] = "china")

\* a reply whose only China A record is outside the answer section turned a
\* hint from false to true and was called trustworthy
C4_Witness ==
  /\ cl.last.called /\ HasA(cl.last.res)
  /\ \A i \in 1..Len(cl.last.res.Answer) :
       ~(cl.last.res.Answer[i].Rrtype = "A" /\ cl.last.res.Answer[i].A \in ChinaIPs)
  /\ AnyAInChina(cl.last.res)
  /\ LruHas(cl.last.before, LastName) /\ ~LruVal(cl.last.before, LastName)
  /\ LruVal(cl.dom, LastName) /\ ~cl.last.polluted

(***************************************************************************)
(* Properties of the cache path.                                           *)
(***************************************************************************)
TcHits == {tc.h1, tc.h2}
Elapsed(h) == h.at - h.putin

\* C8 as stated: every record served from the cache has TTL >= 3.
C8_ServedTTLAtLeast3 ==
  \A h \in TcHits : h.ok => \A rr \in Records(h.served) : rr.Ttl >= 3

\* C8, amended: every record served from the cache has TTL >= 1, and a
\* served TTL below 3 is the stored TTL less the seconds since insertion.
C8_ServedTTLPositive ==
  \A h \in TcHits :
     h.ok =>
       \A i \in 1..Len(AllRRs(h.served)) :
          /\ AllRRs(h.served)[i].Ttl >= 1
          /\ AllRRs(h.served)[i].Ttl < 3 =>
               AllRRs(h.served)[i].Ttl = AllRRs(tc.heap[h.reply])[i].Ttl - Elapsed(h)

\* a hit some time after insertion served a record with TTL 1
C8_Witness ==
  /\ tc.h2.ok /\ Elapsed(tc.h2) > 0
  /\ \E rr \in Records(tc.h2.served) : rr.Ttl = 1

\* the last two lookups hit the same entry, the second at a later instant
SameEntryLater ==
  /\ tc.h1.ok /\ tc.h2.ok
  /\ tc.h1.reply = tc.h2.reply /\ tc.h1.putin = tc.h2.putin
  /\ tc.h1.at < tc.h2.at

\* C9: for two lookups of one entry at t1 < t2, each record's TTL served at
\* t2 is at most the TTL served for it at t1, or else equals 3.
C9_ServedTTLMonotone ==
  SameEntryLater =>
    \A i \in 1..Len(AllRRs(tc.h2.served)) :
       \/ AllRRs(tc.h2.served)[i].Ttl <= AllRRs(tc.h1.served)[i].Ttl
       \/ AllRRs(tc.h2.served)[i].Ttl = 3

\* of two lookups of one entry, the later served one record with a smaller
\* TTL and another that went from below 3 up to 3
C9_Witness ==
  /\ SameEntryLater
  /\ \E i \in 1..Len(AllRRs(tc.h2.served)) :
       AllRRs(tc.h2.served)[i].Ttl < AllRRs(tc.h1.served)[i].Ttl
  /\ \E i \in 1..Len(AllRRs(tc.h2.served)) :
       /\ AllRRs(tc.h1.served)[i].Ttl < 3
       /\ AllRRs(tc.h2.served)[i].Ttl = 3

DropId(r) == [r EXCEPT !.Id = 0]
Lower(n) == IF n = "A." THEN "a." ELSE n
FoldCase(r) ==
  [r EXCEPT !.Question = [i \in 1..Len(@) |-> [@[i] EXCEPT !.Name = Lower(@)]]]

\* a reply was stored for one request and then a request was looked up
\* over the same transport
Probed == tc.ins.done /\ tc.req # ZeroMsg /\ tc.net = tc.ins.net

\* the two requests have the same key and the lookup hit the stored reply
ProbeHit ==
  /\ genCacheKey(tc.ins.req, tc.ins.net) = genCacheKey(tc.req, tc.net)
  /\ tc.h2.ok /\ tc.h2.reply = tc.ins.p

\* C10 as stated: two messages that differ only in transaction id and in
\* the letter case of the name have the same key, so a reply stored for one
\* is a hit for the other.
C10_KeyIgnoresIdAndCase ==
  (Probed /\ FoldCase(DropId(tc.ins.req)) = FoldCase(DropId(tc.req))) => ProbeHit

\* C10, amended: two messages over the same transport have the same key,
\* and a reply stored for one is a hit for the other, exactly when they
\* differ in nothing but the transaction id; names that differ in letter
\* case have different keys.
C10_KeyIgnoresIdOnly ==
  Probed => (ProbeHit <=> DropId(tc.ins.req) = DropId(tc.req))

\* a reply stored for a request was a hit for a request with another id
C10_Witness ==
  /\ Probed /\ ProbeHit
  /\ tc.ins.req.Id # tc.req.Id

(***************************************************************************)
(* Properties of the stored replies, of panics and of what is written.     *)
(***************************************************************************)
\* C11: a step that keeps a cache entry (same key, same insertion time,
\* same message) leaves every field of the stored message as it was.
C11_StoredNeverMutated ==
  [][\A i \in 1..Len(cache) : \A j \in 1..Len(cache') :
       cache'[j] = cache[i] =>
         msgs'[cache[i].val.reply] = msgs[cache[i].val.reply]]_vars

\* C12: no handler, no LookupNet call and no upstream goroutine ever
\* panics.
C12_NoPanic ==
  /\ ~crashed
  /\ \A h \in Handlers : hpc[h] # "panic"
  /\ \A l \in Lookups : ln[l].pc # "panic" /\ ln[l].qf # "panic"

\* C13: every reply written by a handler carries the id and the question
\* of that handler's request, and never the id of the upstream leg.
C13_OwnIdAndQuestion ==
  \A h \in Handlers : \A i \in 1..Len(wrote[h]) :
     /\ wrote[h][i].Id = hreq[h].Id
     /\ wrote[h][i].Id # UpstreamId
     /\ wrote[h][i].Question = hreq[h].Question

\* a handler has served from the cache a reply that was stored under
\* another id
C13_Witness ==
  \E h \in Handlers :
     /\ hit[h].ok /\ hit[h].stored.Id # hreq[h].Id
     /\ Len(wrote[h]) = 1 /\ wrote[h][1].Id = hreq[h].Id

\* C14: the step that takes in a message without a question writes one
\* reply, with response code BadName, the message's id and no record, and
\* changes neither the LookupNet calls, nor the messages, nor the cache,
\* nor the hint store; nothing more is ever written for it.
C14_EmptyQuestionBadName ==
  [][\A h \in Handlers :
       /\ (hpc[h] = "idle" /\ hpc'[h] # "idle" /\ Len(hreq'[h].Question) = 0) =>
            /\ hpc'[h] = "done"
            /\ Len(wrote'[h]) = 1
            /\ wrote'[h][1].Rcode = RcodeBadName
            /\ wrote'[h][1].Id = hreq'[h].Id
            /\ Records(wrote'[h][1]) = {}
            /\ ln' = ln /\ msgs' = msgs
            /\ cache' = cache /\ chinaDom' = chinaDom
       /\ (hpc[h] = "done" /\ Len(hreq[h].Question) = 0) =>
            (wrote'[h] = wrote[h] /\ ln'[h] = FreeLN)]_vars

\* a message without a question was answered while the cache held an entry
C14_Witness ==
  \E h \in Handlers :
     /\ hpc[h] = "done" /\ Len(hreq[h].Question) = 0
     /\ Len(wrote[h]) = 1 /\ wrote[h][1].Rcode = RcodeBadName
     /\ cache # <<>>

C16_HitServesAndRefreshes ==
  [][\A h \in Handlers :
       (hpc[h] = "idle" /\ hit'[h].ok) =>
         LET st == AllRRs(msgs[hit'[h].reply])
             sv == AllRRs(hit'[h].served)
             D == hit'[h].at - hit'[h].putin
             clamped == \E i \in 1..Len(st) : st[i].Ttl - D <= 0
         IN  /\ Len(sv) = Len(st)
             /\ \A i \in 1..Len(st) :
                  sv[i].Ttl = IF st[i].Ttl - D > 0 THEN st[i].Ttl - D ELSE 3
             /\ clamped <=> (ln'[h].bg /\ ln'[h].pc = "recvFast")
             /\ clamped => (ln'[h].req = hreq'[h] /\ ln'[h].net = hnet'[h])
             /\ ~clamped => ln'[h] = FreeLN
             /\ hpc'[h] = "done"
             /\ Len(wrote'[h]) = 1
             /\ AllRRs(wrote'[h][1]) = sv]_vars

\* a stale hit has been written with a TTL of 3 while the refresh it
\* started is still waiting on the fast channel
C16_Witness ==
  \E h \in Handlers :
     /\ hit[h].ok /\ hit[h].at > hit[h].putin
     /\ hpc[h] = "done" /\ Len(wrote[h]) = 1
     /\ \E rr \in Records(wrote[h][1]) : rr.Ttl = 3
     /\ ln[h].bg /\ ln[h].pc = "recvFast" /\ ln[h].fastCh.log = <<>>

\* an acceptable reply reached a channel of the call before the deadline's
\* nil: the accepted fast reply, or a NOERROR clean reply
Delivered(l) ==
  \/ Len(ln[l].fastCh.log) > 0 /\ ln[l].fastCh.log[1] = FastPtr(l)
  \/ /\ Len(ln[l].cleanCh.log) > 0 /\ ln[l].cleanCh.log[1] = Ptr(l, "clean")
     /\ ln[l].cx.pass

\* C17: a refresh to which an upstream delivered an acceptable reply before
\* the deadline is not cut short, and once it has returned the cache holds
\* its reply under the key that was hit, stored no earlier than the hit.
C17_RefreshWritesEntry ==
  \A l \in Lookups :
     (ln[l].bg /\ Delivered(l)) =>
       /\ ~crashed
       /\ ln[l].pc = "returned" =>
            \E i \in 1..Len(cache) :
               /\ cache[i].key = hit[l].key
               /\ cache[i].val.reply = ln[l].res
               /\ cache[i].val.putin >= hit[l].at

(***************************************************************************)
(* Frame properties and the channels.                                      *)
(***************************************************************************)
\* the hints of a store, whatever their order of use
HintMap(dom) == {dom[i] : i \in 1..Len(dom)}

\* C18: a step changes the hints only if it is the fast goroutine's, with
\* the classifier run on a reply that has an A record; any other step of a
\* fast goroutine leaves the hints as they were (a rule-3 read moves the
\* hint to the front, no more), and no step of a clean goroutine, of the
\* deadline, of LookupNet or of a handler touches the store at all.
C18_HintChangesOnlyByRule2 ==
  [][/\ HintMap(chinaDom') # HintMap(chinaDom) =>
          \E l \in Lookups :
             ln[l].qf = "run" /\ ln'[l].qf = "done" /\ ln'[l].fx.a
     /\ chinaDom' # chinaDom =>
          \E l \in Lookups :
             ln[l].qf = "run" /\ ln'[l].qf = "done" /\ ln'[l].fx.pass]_vars

\* with a hint in the store, a fast reply without A record has been
\* classified and a clean reply has been returned and cached
C18_Witness ==
  /\ chinaDom # <<>>
  /\ \E l \in Lookups : ln[l].fx.pass /\ ~ln[l].fx.a /\ LruHas(chinaDom, ln[l].req.Question[1].Name)
  /\ \E l \in Lookups : ln[l].pc = "returned" /\ InCache(Ptr(l, "clean"))

\* the last two lookups hit the same entry after the same elapsed time
SameEntrySameTime ==
  /\ tc.h1.ok /\ tc.h2.ok
  /\ tc.h1.reply = tc.h2.reply /\ tc.h1.putin = tc.h2.putin
  /\ tc.h1.at = tc.h2.at

\* C19: a lookup leaves the stored messages and the entries' insertion
\* times as they were, and two lookups of one entry after the same elapsed
\* time serve identical records.
C19_LookupLeavesStored ==
  [][/\ tc'.n = tc.n =>
          /\ tc'.heap = tc.heap
          /\ {tc'.cache[i] : i \in 1..Len(tc'.cache)}
               = {tc.cache[i] : i \in 1..Len(tc.cache)}
     /\ SameEntrySameTime' =>
          AllRRs(tc'.h1.served) = AllRRs(tc'.h2.served)]_vars

\* two lookups of one entry, some seconds after it was stored, served the
\* same rewritten TTLs, and the stored message still has the TTLs it was
\* stored with
C19_Witness ==
  /\ SameEntrySameTime /\ Elapsed(tc.h2) > 0
  /\ \E i \in 1..Len(AllRRs(tc.h2.served)) :
       /\ AllRRs(tc.h2.served)[i].Ttl # AllRRs(tc.heap[tc.h2.reply])[i].Ttl
       /\ AllRRs(tc.h2.stored)[i].Ttl = AllRRs(tc.heap[tc.h2.reply])[i].Ttl

Sent(pc) == IF pc = "done" THEN 1 ELSE 0

\* C20: each channel of a LookupNet call holds exactly the values of the
\* goroutines that have finished, at most two, and there is room in it for
\* the value of every goroutine that has yet to send (so that no send can
\* block), whether or not LookupNet has returned.
C20_SendsNeverBlock ==
  \A l \in Lookups :
     /\ Len(ln[l].fastCh.log) = Sent(ln[l].qf) + Sent(ln[l].dl)
     /\ Len(ln[l].cleanCh.log) = Sent(ln[l].qc) + Sent(ln[l].dl)
     /\ Len(ln[l].fastCh.log) <= 2 /\ Len(ln[l].cleanCh.log) <= 2
     /\ ChanLen(ln[l].fastCh) + (2 - Len(ln[l].fastCh.log)) <= ChanCap
     /\ ChanLen(ln[l].cleanCh) + (2 - Len(ln[l].cleanCh.log)) <= ChanCap

\* LookupNet returned the fast reply without reading the clean channel,
\* and all three goroutines have finished, each channel holding two values
C20_Witness ==
  \E l \in Lookups :
     /\ ln[l].pc = "returned" /\ ln[l].res = FastPtr(l)
     /\ ln[l].cleanCh.rd = 0
     /\ ln[l].qf = "done" /\ ln[l].qc = "done" /\ ln[l].dl = "done"
     /\ Len(ln[l].fastCh.log) = 2 /\ Len(ln[l].cleanCh.log) = 2

====
